---- MODULE Spec2Model ----
(***************************************************************************)
(* Model of cron-server.py: the crontab editor of CronMonitorServer        *)
(* (get_cron_jobs, add_cron_job, delete_cron_job) and the expression       *)
(* preview of CronPreview (parse_cron and its helpers).                    *)
(*                                                                         *)
(* Text is a sequence of one-character strings, so that Python's strip,    *)
(* split, startswith and join are modelled by what they do to characters.  *)
(* The crontab(1) collaborator is the variable table: "crontab -l" reads   *)
(* it (and fails when no crontab exists), "crontab <file>" replaces it or  *)
(* fails leaving it as it was.                                             *)
(***************************************************************************)
EXTENDS Integers, Sequences, FiniteSets, TLC

VARIABLES
    table,      \* the user's crontab: [exists, text]
    temp_file,  \* the NamedTemporaryFile of the latest call: "none", "exists", "unlinked"
    before,     \* history: the crontab when the latest call started
    last,       \* history: the latest call, its arguments and what it returned
    pending,    \* requests the listening socket has accepted, oldest first
    threads,    \* what each thread of the server is doing
    snapshot,   \* what each caller got from its latest GET /api/jobs
    recent,     \* history: the last two Add or Delete calls that returned
    sent        \* history: the number of requests sent so far

vars == <<table, temp_file, before, last, pending, threads, snapshot, recent, sent>>

\* the part of the state that only the request-by-request view of the server uses
server == <<pending, threads, snapshot, recent, sent>>

----------------------------------------------------------------------------
(* Bounds *)

MaxInitLines == 3   \* lines of the crontab the server starts with
MaxLines == 4       \* add_cron_job is not taken when it would write more lines
MaxIndex == 3       \* largest index a DELETE request carries
MaxDays == 12       \* datetime.max, in days after datetime.min
MaxRequests == 4    \* requests the callers send in one run of the server

----------------------------------------------------------------------------
(* Characters and Python's str methods *)

NL == "\n"
SP == " "
Whitespace == {SP, NL, "\t"}

Min(S) == CHOOSE x \in S : \A y \in S : x <= y
Max(S) == CHOOSE x \in S : \A y \in S : x >= y

\* str.strip()
Strip(s) ==
    LET keep == {i \in 1..Len(s) : s[i] \notin Whitespace}
    IN  IF keep = {} THEN <<>> ELSE SubSeq(s, Min(keep), Max(keep))

\* str.split(sep): every separator cuts, empty pieces are kept
RECURSIVE Split(_, _)
Split(s, sep) ==
    LET hits == {i \in 1..Len(s) : s[i] = sep}
    IN  IF hits = {} THEN <<s>>
        ELSE <<SubSeq(s, 1, Min(hits) - 1)>>
             \o Split(SubSeq(s, Min(hits) + 1, Len(s)), sep)

\* str.split(): runs of whitespace cut, no empty piece
RECURSIVE SplitWs(_)
SplitWs(s) ==
    LET t == Strip(s)
        ws == {i \in 1..Len(t) : t[i] \in Whitespace}
    IN  IF t = <<>> THEN <<>>
        ELSE IF ws = {} THEN <<t>>
        ELSE <<SubSeq(t, 1, Min(ws) - 1)>> \o SplitWs(SubSeq(t, Min(ws) + 1, Len(t)))

\* sep.join(parts)
RECURSIVE Join(_, _)
Join(parts, sep) ==
    IF parts = <<>> THEN <<>>
    ELSE IF Len(parts) = 1 THEN parts[1]
    ELSE parts[1] \o <<sep>> \o Join(Tail(parts), sep)

\* str.startswith(c) for a one-character prefix
StartsWith(s, c) == Len(s) > 0 /\ s[1] = c

\* list[:-1]
DropLast(l) == IF l = <<>> THEN <<>> ELSE SubSeq(l, 1, Len(l) - 1)

----------------------------------------------------------------------------
(* CronPreview: text helpers *)

Contains(s, c) == \E i \in 1..Len(s) : s[i] = c

\* str.startswith(prefix)
StartsWithText(s, prefix) == Len(s) >= Len(prefix) /\ SubSeq(s, 1, Len(prefix)) = prefix

\* s[n:]
From(s, n) == SubSeq(s, n + 1, Len(s))

Digits == <<"0", "1", "2", "3", "4", "5", "6", "7", "8", "9">>
LowerCase == <<"a", "b", "c", "d", "e", "f", "g", "h", "i", "j", "k", "l", "m", "n", "o", "p",
               "q", "r", "s", "t", "u", "v", "w", "x", "y", "z">>
UpperCase == <<"A", "B", "C", "D", "E", "F", "G", "H", "I", "J", "K", "L", "M", "N", "O", "P",
               "Q", "R", "S", "T", "U", "V", "W", "X", "Y", "Z">>

IndexIn(alphabet, c) == CHOOSE i \in 1..Len(alphabet) : alphabet[i] = c

\* str.isdigit()
IsDigit(s) == s # <<>> /\ \A i \in 1..Len(s) : Contains(Digits, s[i])

RECURSIVE DigitsValue(_)
DigitsValue(s) ==
    IF s = <<>> THEN 0
    ELSE 10 * DigitsValue(SubSeq(s, 1, Len(s) - 1)) + (IndexIn(Digits, s[Len(s)]) - 1)

\* int(s) returns: an optional sign and digits; anything else raises ValueError
IsInt(s) == IF s # <<>> /\ s[1] \in {"+", "-"} THEN IsDigit(Tail(s)) ELSE IsDigit(s)
IntValue(s) ==
    IF s[1] = "-" THEN 0 - DigitsValue(Tail(s))
    ELSE IF s[1] = "+" THEN DigitsValue(Tail(s))
    ELSE DigitsValue(s)

ToUpper(c) == IF Contains(LowerCase, c) THEN UpperCase[IndexIn(LowerCase, c)] ELSE c
ToLower(c) == IF Contains(UpperCase, c) THEN LowerCase[IndexIn(UpperCase, c)] ELSE c

\* str.capitalize(): first character upper case, the rest lower case
Capitalize(s) == [i \in 1..Len(s) |-> IF i = 1 THEN ToUpper(s[i]) ELSE ToLower(s[i])]

\* sep.join(parts) for a separator of several characters
RECURSIVE JoinWith(_, _)
JoinWith(parts, sep) ==
    IF parts = <<>> THEN <<>>
    ELSE IF Len(parts) = 1 THEN parts[1]
    ELSE parts[1] \o sep \o JoinWith(Tail(parts), sep)

\* what a step of parse_cron yields: a value, or the exception it raises
Ok(v) == [raised |-> FALSE, value |-> v]
Raise(message) == [raised |-> TRUE, value |-> message]

\* str(e) of "start, end = field.split('-')" when the split has three or more pieces
UnpackError == <<"t", "o", "o", " ", "m", "a", "n", "y", " ", "v", "a", "l", "u", "e", "s",
                 " ", "t", "o", " ", "u", "n", "p", "a", "c", "k", " ", "(", "e", "x", "p", "e",
                 "c", "t", "e", "d", " ", "2", ")">>

----------------------------------------------------------------------------
(* CronPreview.parse_cron: the phrases of explanation_parts *)

MinuteExplanation(minute) ==
    IF minute = <<"*">> THEN Ok(<<<<"e", "v", "e", "r", "y", " ", "m", "i", "n", "u", "t",
                                    "e">>>>)
    ELSE IF Contains(minute, "/") THEN
        IF StartsWithText(minute, <<"*", "/">>)
        THEN Ok(<<<<"e", "v", "e", "r", "y", " ">> \o From(minute, 2) \o <<" ", "m", "i", "n", "u", "t", "e", "s">>>>)
        ELSE Ok(<<<<"e", "v", "e", "r", "y", " ">> \o Split(minute, "/")[2] \o <<" ", "m", "i", "n", "u", "t", "e",
                                                           "s", " ", "s", "t", "a", "r", "t",
                                                           "i", "n", "g", " ", "a", "t", " ",
                                                           "m", "i", "n", "u", "t", "e", " ">>
                  \o Split(minute, "/")[1]>>)
    ELSE IF Contains(minute, ",") THEN Ok(<<<<"a", "t", " ", "m", "i", "n", "u", "t", "e", "s",
                                              " ">> \o minute>>)
    ELSE IF Contains(minute, "-") THEN
        IF Len(Split(minute, "-")) # 2 THEN Raise(UnpackError)
        ELSE Ok(<<<<"f", "r", "o", "m", " ", "m", "i", "n", "u", "t", "e", " ">> \o Split(minute, "-")[1] \o <<" ", "t", "o", " ">> \o Split(minute, "-")[2]>>)
    ELSE Ok(<<<<"a", "t", " ", "m", "i", "n", "u", "t", "e", " ">> \o minute>>)

HourExplanation(hour) ==
    IF hour = <<"*">> THEN Ok(<<>>)
    ELSE IF Contains(hour, "/") THEN
        IF StartsWithText(hour, <<"*", "/">>)
        THEN Ok(<<<<"e", "v", "e", "r", "y", " ">> \o From(hour, 2) \o <<" ", "h", "o", "u", "r", "s">>>>)
        ELSE Ok(<<<<"e", "v", "e", "r", "y", " ">> \o Split(hour, "/")[2] \o <<" ", "h", "o", "u", "r", "s", " ",
                                                         "s", "t", "a", "r", "t", "i", "n", "g",
                                                         " ", "a", "t", " ", "h", "o", "u", "r",
                                                         " ">>
                  \o Split(hour, "/")[1]>>)
    ELSE IF Contains(hour, ",") THEN Ok(<<<<"a", "t", " ", "h", "o", "u", "r", "s", " ">> \o hour>>)
    ELSE IF Contains(hour, "-") THEN
        IF Len(Split(hour, "-")) # 2 THEN Raise(UnpackError)
        ELSE Ok(<<<<"f", "r", "o", "m", " ", "h", "o", "u", "r", " ">> \o Split(hour, "-")[1] \o <<" ", "t", "o", " ">> \o Split(hour, "-")[2]>>)
    ELSE Ok(<<<<"a", "t", " ">> \o hour \o <<":", "X", "X">>>>)

DayExplanation(day) ==
    IF day = <<"*">> THEN Ok(<<>>)
    ELSE IF Contains(day, "/") THEN Ok(<<<<"e", "v", "e", "r", "y", " ">> \o Split(day, "/")[2] \o <<" ", "d", "a",
                                                                               "y", "s">>>>)
    ELSE IF Contains(day, ",") THEN Ok(<<<<"o", "n", " ", "d", "a", "y", "s", " ">> \o day>>)
    ELSE IF Contains(day, "-") THEN
        IF Len(Split(day, "-")) # 2 THEN Raise(UnpackError)
        ELSE Ok(<<<<"f", "r", "o", "m", " ", "d", "a", "y", " ">> \o Split(day, "-")[1] \o <<" ", "t", "o", " ">> \o Split(day, "-")[2]>>)
    ELSE Ok(<<<<"o", "n", " ", "d", "a", "y", " ">> \o day>>)

Months == <<<<"J", "a", "n">>, <<"F", "e", "b">>, <<"M", "a", "r">>, <<"A", "p", "r">>, <<"M", "a", "y">>, <<"J", "u", "n">>,
            <<"J", "u", "l">>, <<"A", "u", "g">>, <<"S", "e", "p">>, <<"O", "c", "t">>, <<"N", "o", "v">>, <<"D", "e", "c">>>>

Weekdays == <<<<"S", "u", "n", "d", "a", "y">>, <<"M", "o", "n", "d", "a", "y">>, <<"T", "u", "e", "s", "d", "a", "y">>, <<"W", "e", "d", "n", "e", "s", "d", "a",
                                                     "y">>, <<"T", "h", "u", "r", "s",
                                                                    "d", "a", "y">>,
              <<"F", "r", "i", "d", "a", "y">>, <<"S", "a", "t", "u", "r", "d", "a", "y">>>>

\* [names[int(v) - base] for v in items if v.isdigit() and lo <= int(v) <= hi]
RECURSIVE NamesOf(_, _, _, _, _)
NamesOf(items, names, base, lo, hi) ==
    IF items = <<>> THEN <<>>
    ELSE LET v == items[1]
             rest == NamesOf(Tail(items), names, base, lo, hi)
         IN  IF IsDigit(v) /\ lo <= DigitsValue(v) /\ DigitsValue(v) <= hi
             THEN <<names[DigitsValue(v) - base + 1]>> \o rest
             ELSE rest

MonthExplanation(month) ==
    IF month = <<"*">> THEN Ok(<<>>)
    ELSE IF IsDigit(month) /\ 1 <= DigitsValue(month) /\ DigitsValue(month) <= 12
    THEN Ok(<<<<"i", "n", " ">> \o Months[DigitsValue(month)]>>)
    ELSE IF Contains(month, ",")
    THEN Ok(<<<<"i", "n", " ">> \o JoinWith(NamesOf(Split(month, ","), Months, 1, 1, 12), <<",", " ">>)>>)
    ELSE Ok(<<>>)

WeekdayExplanation(weekday) ==
    IF weekday = <<"*">> THEN Ok(<<>>)
    ELSE IF IsDigit(weekday) /\ 0 <= DigitsValue(weekday) /\ DigitsValue(weekday) <= 6
    THEN Ok(<<<<"o", "n", " ">> \o Weekdays[DigitsValue(weekday) + 1]>>)
    ELSE IF Contains(weekday, ",")
    THEN Ok(<<<<"o", "n", " ">> \o JoinWith(NamesOf(Split(weekday, ","), Weekdays, 0, 0, 6), <<",",
                                                                                     " ">>)>>)
    ELSE Ok(<<>>)

----------------------------------------------------------------------------
(* CronPreview.get_common_patterns, explain_field *)

Patterns ==
    <<<<<<"*", " ", "*", " ", "*", " ", "*", " ", "*">>, <<"E", "v", "e", "r", "y", " ", "m", "i", "n", "u", "t", "e">>>>,
      <<<<"0", " ", "*", " ", "*", " ", "*", " ", "*">>, <<"E", "v", "e", "r", "y", " ", "h", "o", "u", "r">>>>,
      <<<<"0", " ", "0", " ", "*", " ", "*", " ", "*">>, <<"D", "a", "i", "l", "y", " ", "a", "t", " ", "m", "i", "d", "n", "i",
                         "g", "h", "t">>>>,
      <<<<"0", " ", "1", "2", " ", "*", " ", "*", " ", "*">>, <<"D", "a", "i", "l", "y", " ", "a", "t", " ", "n", "o", "o", "n">>>>,
      <<<<"0", " ", "9", " ", "*", " ", "*", " ", "1">>, <<"E", "v", "e", "r", "y", " ", "M", "o", "n", "d", "a", "y", " ", "a",
                         "t", " ", "9", " ", "A", "M">>>>,
      <<<<"0", " ", "0", " ", "1", " ", "*", " ", "*">>, <<"F", "i", "r", "s", "t", " ", "d", "a", "y", " ", "o", "f", " ", "e",
                         "v", "e", "r", "y", " ", "m", "o", "n", "t", "h">>>>,
      <<<<"0", " ", "0", " ", "1", " ", "1", " ", "*">>, <<"E", "v", "e", "r", "y", " ", "N", "e", "w", " ", "Y", "e", "a", "r",
                         " ", "(", "J", "a", "n", "u", "a", "r", "y", " ", "1", "s", "t", ")">>>>,
      <<<<"*", "/", "5", " ", "*", " ", "*", " ", "*", " ", "*">>, <<"E", "v", "e", "r", "y", " ", "5", " ", "m", "i", "n", "u", "t",
                           "e", "s">>>>,
      <<<<"*", "/", "1", "5", " ", "*", " ", "*", " ", "*", " ", "*">>, <<"E", "v", "e", "r", "y", " ", "1", "5", " ", "m", "i", "n", "u",
                            "t", "e", "s">>>>,
      <<<<"*", "/", "3", "0", " ", "*", " ", "*", " ", "*", " ", "*">>, <<"E", "v", "e", "r", "y", " ", "3", "0", " ", "m", "i", "n", "u",
                            "t", "e", "s">>>>,
      <<<<"0", " ", "*", "/", "6", " ", "*", " ", "*", " ", "*">>, <<"E", "v", "e", "r", "y", " ", "6", " ", "h", "o", "u", "r", "s">>>>,
      <<<<"0", " ", "2", " ", "*", " ", "*", " ", "*">>, <<"D", "a", "i", "l", "y", " ", "a", "t", " ", "2", " ", "A", "M">>>>,
      <<<<"0", " ", "0", " ", "*", " ", "*", " ", "0">>, <<"E", "v", "e", "r", "y", " ", "S", "u", "n", "d", "a", "y", " ", "a",
                         "t", " ", "m", "i", "d", "n", "i", "g", "h", "t">>>>,
      <<<<"0", " ", "0", " ", "*", " ", "*", " ", "1", "-", "5">>, <<"W", "e", "e", "k", "d", "a", "y", "s", " ", "a", "t", " ", "m",
                           "i", "d", "n", "i", "g", "h", "t">>>>,
      <<<<"3", "0", " ", "2", " ", "*", " ", "*", " ", "1", "-", "5">>, <<"W", "e", "e", "k", "d", "a", "y", "s", " ", "a", "t", " ", "2",
                            ":", "3", "0", " ", "A", "M">>>>>>

\* patterns.get(expression); None is the empty text, which "or" treats alike
get_common_patterns(expression) ==
    IF \E k \in 1..Len(Patterns) : Patterns[k][1] = expression
    THEN Patterns[CHOOSE k \in 1..Len(Patterns) : Patterns[k][1] = expression][2]
    ELSE <<>>

explain_field(field, field_name) ==
    IF field = <<"*">> THEN Ok(<<"A", "n", "y", " ">> \o field_name)
    ELSE IF Contains(field, "/") THEN
        IF StartsWithText(field, <<"*", "/">>)
        THEN Ok(<<"E", "v", "e", "r", "y", " ">> \o From(field, 2) \o <<" ">> \o field_name \o <<"s">>)
        ELSE Ok(<<"E", "v", "e", "r", "y", " ">> \o Split(field, "/")[2] \o <<" ">> \o field_name
                \o <<"s", " ", "s", "t", "a", "r", "t", "i", "n", "g", " ", "f", "r", "o", "m",
                     " ">> \o Split(field, "/")[1])
    ELSE IF Contains(field, ",") THEN Ok(field_name \o <<"s", ":", " ">> \o field)
    ELSE IF Contains(field, "-") THEN
        IF Len(Split(field, "-")) # 2 THEN Raise(UnpackError)
        ELSE Ok(field_name \o <<"s", " ", "f", "r", "o", "m", " ">> \o Split(field, "-")[1] \o <<" ", "t", "o", " ">>
                \o Split(field, "-")[2])
    ELSE Ok(field_name \o <<" ">> \o field)

----------------------------------------------------------------------------
(* CronPreview.calculate_next_runs; a datetime is a number of seconds *)

SecondsPerMinute == 60
SecondsPerHour == 3600
SecondsPerDay == 86400
Count == 5

\* datetime.min .. datetime.max; arithmetic that leaves it raises OverflowError
InRange(t) == 0 <= t /\ t < MaxDays * SecondsPerDay

\* strftime("%Y-%m-%d %H:%M"): the date, hour and minute; seconds are dropped
Stamp(t) ==
    [date   |-> t \div SecondsPerDay,
     hour   |-> (t % SecondsPerDay) \div SecondsPerHour,
     minute |-> (t % SecondsPerHour) \div SecondsPerMinute]

\* a loop that starts at now instead of one step after it
RECURSIVE OffsetRunsFromNow(_, _, _, _)
OffsetRunsFromNow(now, step, i, next_runs) ==
    IF i >= Count THEN next_runs
    ELSE IF ~InRange(now + step * i) THEN next_runs
    ELSE OffsetRunsFromNow(now, step, i + 1, Append(next_runs, Stamp(now + step * i)))

\* for i in range(count): append(now + timedelta(step * (i + 1)));
\* an OverflowError ends the loop and next_runs keeps what it has
RECURSIVE OffsetRuns(_, _, _, _)
OffsetRuns(now, step, i, next_runs) ==
    IF i >= Count THEN next_runs
    ELSE IF ~InRange(now + step * (i + 1)) THEN next_runs
    ELSE OffsetRuns(now, step, i + 1, Append(next_runs, Stamp(now + step * (i + 1))))

\* for i in range(count): append(next_run); next_run += timedelta(step)
RECURSIVE SteppedRuns(_, _, _, _)
SteppedRuns(next_run, step, i, next_runs) ==
    IF i >= Count THEN next_runs
    ELSE IF ~InRange(next_run + step) THEN Append(next_runs, Stamp(next_run))
    ELSE SteppedRuns(next_run + step, step, i + 1, Append(next_runs, Stamp(next_run)))

\* now.replace(hour=h, minute=m, second=0, microsecond=0), for h, m in the clock's range
Replace(now, h, m) ==
    (now \div SecondsPerDay) * SecondsPerDay + h * SecondsPerHour + m * SecondsPerMinute

\* a daily branch that keeps today's run when it is due exactly now
DailyRunsNotStrict(now, target_hour, target_minute) ==
    IF target_hour > 23 \/ target_minute > 59 THEN <<>>
    ELSE LET next_run == Replace(now, target_hour, target_minute)
             first == IF next_run < now THEN next_run + SecondsPerDay ELSE next_run
         IN  IF ~InRange(first) THEN <<>>
             ELSE SteppedRuns(first, SecondsPerDay, 0, <<>>)

\* the "specific time daily" branch
DailyRuns(now, target_hour, target_minute) ==
    IF target_hour > 23 \/ target_minute > 59 THEN <<>>
    ELSE LET next_run == Replace(now, target_hour, target_minute)
             first == IF next_run <= now THEN next_run + SecondsPerDay ELSE next_run
         IN  IF ~InRange(first) THEN <<>>
             ELSE SteppedRuns(first, SecondsPerDay, 0, <<>>)

\* the "every hour" branch
HourlyRuns(now) ==
    LET next_run == Replace(now, (now % SecondsPerDay) \div SecondsPerHour, 0) + SecondsPerHour
    IN  IF ~InRange(next_run) THEN <<>>
        ELSE SteppedRuns(next_run, SecondsPerHour, 0, <<>>)

\* a projection without the branch for the all-wildcard expression
calculate_next_runs_no_every_minute(parts, now) ==
    LET minute == parts[1]
        hour == parts[2]
        next_runs ==
            IF StartsWithText(minute, <<"*", "/">>) /\ hour = <<"*">>
            THEN IF IsInt(From(minute, 2))
                 THEN OffsetRuns(now, IntValue(From(minute, 2)) * SecondsPerMinute, 0, <<>>)
                 ELSE <<>>
            ELSE IF IsDigit(minute) /\ IsDigit(hour)
            THEN DailyRuns(now, DigitsValue(hour), DigitsValue(minute))
            ELSE IF minute = <<"0">> /\ hour = <<"*">>
            THEN HourlyRuns(now)
            ELSE OffsetRuns(now, SecondsPerHour, 0, <<>>)
    IN  SubSeq(next_runs, 1, IF Len(next_runs) < Count THEN Len(next_runs) ELSE Count)

\* a projection whose "every hour" branch also asks for a wildcard day of month
calculate_next_runs_day_aware(parts, now) ==
    LET minute == parts[1]
        hour == parts[2]
        next_runs ==
            IF parts = <<<<"*">>, <<"*">>, <<"*">>, <<"*">>, <<"*">>>>
            THEN OffsetRuns(now, SecondsPerMinute, 0, <<>>)
            ELSE IF StartsWithText(minute, <<"*", "/">>) /\ hour = <<"*">>
            THEN IF IsInt(From(minute, 2))
                 THEN OffsetRuns(now, IntValue(From(minute, 2)) * SecondsPerMinute, 0, <<>>)
                 ELSE <<>>
            ELSE IF IsDigit(minute) /\ IsDigit(hour)
            THEN DailyRuns(now, DigitsValue(hour), DigitsValue(minute))
            ELSE IF minute = <<"0">> /\ hour = <<"*">> /\ parts[3] = <<"*">>
            THEN HourlyRuns(now)
            ELSE OffsetRuns(now, SecondsPerHour, 0, <<>>)
    IN  SubSeq(next_runs, 1, IF Len(next_runs) < Count THEN Len(next_runs) ELSE Count)

calculate_next_runs(parts, now) ==
    LET minute == parts[1]
        hour == parts[2]
        next_runs ==
            IF parts = <<<<"*">>, <<"*">>, <<"*">>, <<"*">>, <<"*">>>>
            THEN OffsetRuns(now, SecondsPerMinute, 0, <<>>)
            ELSE IF StartsWithText(minute, <<"*", "/">>) /\ hour = <<"*">>
            THEN IF IsInt(From(minute, 2))
                 THEN OffsetRuns(now, IntValue(From(minute, 2)) * SecondsPerMinute, 0, <<>>)
                 ELSE <<>>
            ELSE IF IsDigit(minute) /\ IsDigit(hour)
            THEN DailyRuns(now, DigitsValue(hour), DigitsValue(minute))
            ELSE IF minute = <<"0">> /\ hour = <<"*">>
            THEN HourlyRuns(now)
            ELSE OffsetRuns(now, SecondsPerHour, 0, <<>>)
    IN  SubSeq(next_runs, 1, IF Len(next_runs) < Count THEN Len(next_runs) ELSE Count)

----------------------------------------------------------------------------
(* CronPreview.parse_cron *)

InvalidParts ==
    [valid       |-> FALSE,
     description |-> <<"I", "n", "v", "a", "l", "i", "d", " ", "c", "r", "o", "n", " ", "e",
                       "x", "p", "r", "e", "s", "s", "i", "o", "n", " ", "-", " ", "m", "u", "s",
                       "t", " ", "h", "a", "v", "e", " ", "5", " ", "p", "a", "r", "t", "s">>,
     next_runs   |-> <<>>,
     explanation |-> <<"C", "r", "o", "n", " ", "f", "o", "r", "m", "a", "t", ":", " ", "m",
                       "i", "n", "u", "t", "e", " ", "h", "o", "u", "r", " ", "d", "a", "y", " ",
                       "m", "o", "n", "t", "h", " ", "w", "e", "e", "k", "d", "a", "y">>]

\* an error result that reports the fixed text instead of the exception's
ErrorResultFixedText(message) == InvalidParts

ErrorResult(message) ==
    [valid       |-> FALSE,
     description |-> <<"E", "r", "r", "o", "r", " ", "p", "a", "r", "s", "i", "n", "g", " ",
                       "c", "r", "o", "n", " ", "e", "x", "p", "r", "e", "s", "s", "i", "o",
                       "n">>,
     next_runs   |-> <<>>,
     explanation |-> message]

\* the steps of the try block in the order they run: the five phrases, then the
\* five explain_field calls of the returned dict
Steps(parts) ==
    <<MinuteExplanation(parts[1]),
      HourExplanation(parts[2]),
      DayExplanation(parts[3]),
      MonthExplanation(parts[4]),
      WeekdayExplanation(parts[5]),
      explain_field(parts[1], <<"m", "i", "n", "u", "t", "e">>),
      explain_field(parts[2], <<"h", "o", "u", "r">>),
      explain_field(parts[3], <<"d", "a", "y", " ", "o", "f", " ", "m", "o", "n", "t", "h">>),
      explain_field(parts[4], <<"m", "o", "n", "t", "h">>),
      explain_field(parts[5], <<"d", "a", "y", " ", "o", "f", " ", "w", "e", "e", "k">>)>>

\* a test that lets through an expression with more than five parts
TooFewParts(parts) == Len(parts) < 5

\* if len(parts) != 5
WrongPartCount(parts) == Len(parts) # 5

parse_cron(expression, now) ==
    LET parts == SplitWs(Strip(expression))
    IN  IF WrongPartCount(parts) THEN InvalidParts
        ELSE LET steps == Steps(parts)
                 raising == {k \in 1..Len(steps) : steps[k].raised}
                 explanation_parts ==
                     steps[1].value \o steps[2].value \o steps[3].value
                     \o steps[4].value \o steps[5].value
                 explanation == Capitalize(JoinWith(explanation_parts, <<" ">>))
                 pattern == get_common_patterns(expression)
             IN  IF raising # {} THEN ErrorResult(steps[Min(raising)].value)
                 ELSE [valid       |-> TRUE,
                       description |-> IF pattern # <<>> THEN pattern ELSE explanation,
                       next_runs   |-> calculate_next_runs(parts, now),
                       explanation |-> explanation,
                       breakdown   |-> [minute  |-> steps[6].value,
                                        hour    |-> steps[7].value,
                                        day     |-> steps[8].value,
                                        month   |-> steps[9].value,
                                        weekday |-> steps[10].value]]

----------------------------------------------------------------------------
(* The crontab(1) collaborator *)

NoTable == [exists |-> FALSE, text |-> <<>>]
Crontab(text) == [exists |-> TRUE, text |-> text]

\* an install that truncates the crontab before it fails
InstallTruncating(old, content, ok) == IF ok THEN Crontab(content) ELSE Crontab(<<>>)

\* crontab <temp_file>: replaces the crontab, or fails and leaves it
Install(old, content, ok) == IF ok THEN Crontab(content) ELSE old

\* f.write('\n'.join(lines) + '\n')
WriteLines(lines) == Join(lines, NL) \o <<NL>>

----------------------------------------------------------------------------
(* get_cron_jobs *)

DefaultLabel == <<"C", "u", "s", "t", "o", "m", " ", "c", "r", "o", "n", " ",
                 "j", "o", "b">>

\* a scan that keeps the pending comment over a blank line
PendingCommentKeptOverBlank(line, comment) ==
    IF line = <<>> THEN comment
    ELSE IF StartsWith(line, "#") THEN Strip(Tail(line))
    ELSE <<>>

\* the comment variable after the loop body has run on one stripped line
PendingComment(line, comment) ==
    IF line = <<>> THEN <<>>
    ELSE IF StartsWith(line, "#") THEN Strip(Tail(line))
    ELSE <<>>

\* the stripped line is appended to jobs
IsJobLine(line) ==
    /\ line # <<>>
    /\ ~StartsWith(line, "#")
    /\ Len(SplitWs(line)) >= 5

Job(line, comment, job_index) ==
    LET parts == SplitWs(line)
    IN  [index     |-> job_index,
         schedule  |-> Join(SubSeq(parts, 1, 5), SP),
         command   |-> Join(SubSeq(parts, 6, Len(parts)), SP),
         comment   |-> IF comment = <<>> THEN DefaultLabel ELSE comment,
         full_line |-> line]

\* a scan whose job_index advances on every line that is no comment, the
\* lines of fewer than five tokens included
RECURSIVE ScanJobsCountingShort(_, _, _, _, _)
ScanJobsCountingShort(lines, i, comment, job_index, jobs) ==
    IF i > Len(lines) THEN jobs
    ELSE LET line == Strip(lines[i])
         IN  IF IsJobLine(line)
             THEN ScanJobsCountingShort(lines, i + 1, PendingComment(line, comment),
                                        job_index + 1,
                                        Append(jobs, Job(line, comment, job_index)))
             ELSE ScanJobsCountingShort(lines, i + 1, PendingComment(line, comment),
                                        IF line # <<>> /\ ~StartsWith(line, "#")
                                        THEN job_index + 1 ELSE job_index,
                                        jobs)

RECURSIVE ScanJobs(_, _, _, _, _)
ScanJobs(lines, i, comment, job_index, jobs) ==
    IF i > Len(lines) THEN jobs
    ELSE LET line == Strip(lines[i])
         IN  IF IsJobLine(line)
             THEN ScanJobs(lines, i + 1, PendingComment(line, comment), job_index + 1,
                           Append(jobs, Job(line, comment, job_index)))
             ELSE ScanJobs(lines, i + 1, PendingComment(line, comment), job_index, jobs)

\* the jobs returned, without 'description' and 'next_runs': those are
\* parse_cron(schedule) at the time of the call and nothing reads them back
get_cron_jobs(tbl) ==
    IF tbl.exists THEN ScanJobs(Split(tbl.text, NL), 1, <<>>, 0, <<>>) ELSE <<>>

----------------------------------------------------------------------------
(* add_cron_job *)

\* a read that starts from one empty line when there is no crontab
CurrentJobsBlankStart(tbl) == IF tbl.exists THEN Split(Strip(tbl.text), NL) ELSE <<<<>>>>

\* current_jobs after the read: the lines of the stripped text, or none
CurrentJobs(tbl) == IF tbl.exists THEN Split(Strip(tbl.text), NL) ELSE <<>>

\* an append that writes the comment line after the entry line
AppendJobCommentLast(current_jobs, schedule, command, comment) ==
    LET with_job == Append(current_jobs, schedule \o <<SP>> \o command)
    IN  IF comment # <<>> THEN Append(with_job, <<"#">> \o comment) ELSE with_job

AppendJob(current_jobs, schedule, command, comment) ==
    LET with_comment == IF comment # <<>>
                        THEN Append(current_jobs, <<"#">> \o comment)
                        ELSE current_jobs
    IN  Append(with_comment, schedule \o <<SP>> \o command)

----------------------------------------------------------------------------
(* delete_cron_job *)

\* a test that lets comment lines advance the counter as well
CountsCommentsToo(line) == Strip(line) # <<>>

\* the loop's test for a line that advances current_job_index
CountsAsJob(line) == Strip(line) # <<>> /\ ~StartsWith(line, "#")

RECURSIVE FilterLines(_, _, _, _, _)
FilterLines(lines, job_index, i, current_job_index, filtered_lines) ==
    IF i > Len(lines) THEN filtered_lines
    ELSE LET line == lines[i]
         IN  IF CountsAsJob(line)
             THEN IF current_job_index = job_index
                  THEN FilterLines(lines, job_index, i + 1, current_job_index + 1,
                                   IF i > 1 /\ StartsWith(Strip(lines[i - 1]), "#")
                                   THEN DropLast(filtered_lines)
                                   ELSE filtered_lines)
                  ELSE FilterLines(lines, job_index, i + 1, current_job_index + 1,
                                   Append(filtered_lines, line))
             ELSE FilterLines(lines, job_index, i + 1, current_job_index,
                              Append(filtered_lines, line))

----------------------------------------------------------------------------
(* Inputs *)

BlankLine   == <<>>
CommentA    == <<"#", "a">>
IndentedB   == <<" ", "#", "b">>
ShortLine   == <<"f">>
JobX        == <<"1", " ", "2", " ", "3", " ", "4", " ", "5", " ", "x">>

LinePool == {BlankLine, CommentA, IndentedB, ShortLine, JobX}

\* a crontab file: every line ends with a newline
FileText(lines) == IF lines = <<>> THEN <<>> ELSE WriteLines(lines)

InitTables ==
    {NoTable} \cup
    {Crontab(FileText(ls)) : ls \in UNION {[1..k -> LinePool] : k \in 0..MaxInitLines}}

Midnight    == <<"0", " ", "0", " ", "*", " ", "*", " ", "*">>
WideSpaced  == <<"0", " ", " ", "0", " ", "*", " ", "*", " ", "*">>
CmdW        == <<"w">>
CmdTwoWords == <<"u", " ", " ", "v">>
NoComment   == <<>>
CommentC    == <<"c">>
PaddedC     == <<" ", "c">>

\* the JSON bodies of POST /api/jobs/add: schedule, command, comment
AddRequests ==
    {<<Midnight, CmdW, NoComment>>,
     <<Midnight, CmdW, CommentC>>,
     <<WideSpaced, CmdW, PaddedC>>,
     <<Midnight, CmdTwoWords, NoComment>>}

\* the index in the path of DELETE /api/jobs/<index>
DeleteIndexes == (-1)..MaxIndex

\* the expressions of GET /api/preview/<expression>, decoded
ExprEveryMinute == <<"*", " ", "*", " ", "*", " ", "*", " ", "*">>
ExprEvery15 == <<"*", "/", "1", "5", " ", "*", " ", "*", " ", "*", " ", "*">>
ExprEvery5Monday == <<"*", "/", "5", " ", "*", " ", "*", " ", "*", " ", "1">>
ExprStepZero == <<"*", "/", "0", " ", "*", " ", "*", " ", "*", " ", "*">>
ExprStepNegative == <<"*", "/", "-", "5", " ", "*", " ", "*", " ", "*", " ", "*">>
ExprStepWord == <<"*", "/", "x", " ", "*", " ", "*", " ", "*", " ", "*">>
ExprStepHuge == <<"*", "/", "9", "0", "0", "0", " ", "*", " ", "*", " ", "*", " ", "*">>
ExprNoon == <<"0", " ", "1", "2", " ", "*", " ", "*", " ", "*">>
ExprWeekdayNight == <<"3", "0", " ", "2", " ", "*", " ", "*", " ", "1", "-", "5">>
ExprHourly == <<"0", " ", "*", " ", "*", " ", "*", " ", "*">>
ExprSixHourly == <<"0", " ", "*", "/", "6", " ", "*", " ", "*", " ", "*">>
ExprLastMinute == <<"5", "9", " ", "2", "3", " ", "*", " ", "*", " ", "*">>
ExprOffClock == <<"6", "1", " ", "2", "5", " ", "*", " ", "*", " ", "*">>
ExprTwoDashes == <<"1", "-", "2", "-", "3", " ", "*", " ", "*", " ", "*", " ", "*">>
ExprMonthTwoDashes == <<"*", " ", "*", " ", "*", " ", "1", "-", "2", "-", "3", " ", "*">>
ExprMixed == <<"1", ",", "2", " ", "3", "-", "4", " ", "5", "/", "6", " ", "1", ",", "1", "3", " ", "0", ",", "7">>
ExprBasedSteps == <<"1", "/", "2", " ", "3", "/", "4", " ", "*", " ", "1", "3", " ", "7">>
ExprFirstOfMonth == <<"*", " ", "*", " ", "1", " ", "*", " ", "*">>
ExprNewYear == <<"0", " ", "0", " ", "1", " ", "1", " ", "*">>
ExprMondayNine == <<"0", " ", "9", " ", "*", " ", "*", " ", "1">>
ExprPaddedNoon == <<" ", "0", " ", " ", "1", "2", " ", "*", " ", "*", " ", "*", " ">>
ExprThreeParts == <<"*", " ", "*", " ", "*">>
ExprSixParts == <<"*", " ", "*", " ", "*", " ", "*", " ", "*", " ", "*">>
ExprNoParts == <<>>
ExprOnlySpaces == <<" ", " ">>
ExprDecemberSaturday == <<"5", " ", "4", " ", "*", " ", "1", "2", " ", "6">>
ExprHourlyFirst == <<"0", " ", "*", " ", "1", " ", "*", " ", "*">>
ExprEvery15Weekdays == <<"*", "/", "1", "5", " ", "*", " ", "*", " ", "*", " ", "1", "-", "5">>
ExprWednesday == <<"*", " ", "*", " ", "*", " ", "*", " ", "3">>
ExprEveryMinuteWide == <<" ", "*", " ", " ", "*", " ", "*", " ", "*", " ", "*">>

Expressions ==
    {ExprEveryMinute,
     ExprEvery15,
     ExprEvery5Monday,
     ExprStepZero,
     ExprStepNegative,
     ExprStepWord,
     ExprStepHuge,
     ExprNoon,
     ExprWeekdayNight,
     ExprHourly,
     ExprSixHourly,
     ExprLastMinute,
     ExprOffClock,
     ExprTwoDashes,
     ExprMonthTwoDashes,
     ExprMixed,
     ExprBasedSteps,
     ExprFirstOfMonth,
     ExprNewYear,
     ExprMondayNine,
     ExprPaddedNoon,
     ExprThreeParts,
     ExprSixParts,
     ExprNoParts,
     ExprOnlySpaces,
     ExprDecemberSaturday,
     Midnight,
     ExprHourlyFirst,
     ExprEvery15Weekdays,
     ExprWednesday,
     ExprEveryMinuteWide}

\* datetime.now(): seconds after datetime.min
Nows ==
    {2 * SecondsPerDay,
     2 * SecondsPerDay + 11 * SecondsPerHour,
     2 * SecondsPerDay + 12 * SecondsPerHour + 30,
     2 * SecondsPerDay + 13 * SecondsPerHour + 7 * SecondsPerMinute + 59,
     3 * SecondsPerDay - 1,
     (MaxDays - 3) * SecondsPerDay + 6 * SecondsPerHour}

----------------------------------------------------------------------------
(* The server: one request at a time (HTTPServer.serve_forever) *)

NoCall == [op |-> "none", schedule |-> <<>>, command |-> <<>>, comment |-> <<>>,
           index |-> 0, success |-> FALSE, jobs |-> <<>>,
           expression |-> <<>>, now |-> 0, result |-> <<>>]

\* a server that hands each request to a thread of its own
ThreadPerRequest == {"main", "worker"}

\* HTTPServer: serve_forever runs one handler at a time, to its end
Threads == {"main"}

\* the callers of the HTTP interface
Clients == {"one", "two"}

NoRequest == [client |-> "nobody", op |-> "none", schedule |-> <<>>, command |-> <<>>,
              comment |-> <<>>, index |-> 0, listed |-> FALSE, seen |-> <<>>]

IdleThread == [pc |-> "idle", request |-> NoRequest, read |-> NoTable]

\* no request was sent yet
ServerIdle ==
    /\ pending = <<>>
    /\ threads = [t \in Threads |-> IdleThread]
    /\ snapshot = [c \in Clients |-> [taken |-> FALSE, jobs |-> <<>>]]
    /\ recent = <<>>
    /\ sent = 0

Init ==
    /\ table \in InitTables
    /\ temp_file = "none"
    /\ before = table
    /\ last = NoCall
    /\ ServerIdle

\* GET /api/jobs
ListJobs ==
    /\ last' = [NoCall EXCEPT !.op = "list", !.jobs = get_cron_jobs(table)]
    /\ before' = table
    /\ UNCHANGED <<table, temp_file>>
    /\ UNCHANGED server

\* POST /api/jobs/add
add_cron_job(schedule, command, comment, ok) ==
    LET current_jobs == AppendJob(CurrentJobs(table), schedule, command, comment)
    IN  /\ Len(current_jobs) <= MaxLines
        /\ table' = Install(table, WriteLines(current_jobs), ok)
        /\ temp_file' = IF ok THEN "unlinked" ELSE "exists"
        /\ last' = [NoCall EXCEPT !.op = "add", !.schedule = schedule,
                                  !.command = command, !.comment = comment,
                                  !.success = ok]
        /\ before' = table
        /\ UNCHANGED server

\* DELETE /api/jobs/<index>, crontab -l succeeded
delete_cron_job(job_index, ok) ==
    /\ table.exists
    /\ LET lines == Split(Strip(table.text), NL)
           filtered_lines == FilterLines(lines, job_index, 1, 0, <<>>)
       IN  table' = Install(table, WriteLines(filtered_lines), ok)
    /\ temp_file' = IF ok THEN "unlinked" ELSE "exists"
    /\ last' = [NoCall EXCEPT !.op = "delete", !.index = job_index, !.success = ok]
    /\ before' = table
    /\ UNCHANGED server

\* DELETE /api/jobs/<index>, crontab -l raised CalledProcessError
delete_cron_job_unreadable(job_index) ==
    /\ ~table.exists
    /\ last' = [NoCall EXCEPT !.op = "delete", !.index = job_index, !.success = FALSE]
    /\ before' = table
    /\ temp_file' = "none"
    /\ UNCHANGED table
    /\ UNCHANGED server

Add == \E r \in AddRequests, ok \in BOOLEAN : add_cron_job(r[1], r[2], r[3], ok)
Delete == \E i \in DeleteIndexes, ok \in BOOLEAN : delete_cron_job(i, ok)
DeleteUnreadable == \E i \in DeleteIndexes : delete_cron_job_unreadable(i)

Next == ListJobs \/ Add \/ Delete \/ DeleteUnreadable

Spec == Init /\ [][Next]_vars

\* CronPreview.parse_cron(expression), called at the time now
Preview(expression, now) ==
    /\ last' = [NoCall EXCEPT !.op = "parse", !.expression = expression, !.now = now,
                              !.result = parse_cron(expression, now)]
    /\ UNCHANGED <<table, temp_file, before>>
    /\ UNCHANGED server

InitPreview ==
    /\ table = NoTable
    /\ temp_file = "none"
    /\ before = NoTable
    /\ last = NoCall
    /\ ServerIdle

NextPreview == \E expression \in Expressions, now \in Nows : Preview(expression, now)

SpecPreview == InitPreview /\ [][NextPreview]_vars

----------------------------------------------------------------------------
(* The server request by request: callers send requests, the socket queues *)
(* them, and a thread takes one request at a time. add_cron_job and        *)
(* delete_cron_job touch the crontab twice, "crontab -l" and "crontab      *)
(* <file>", and these are two steps.                                       *)

JobW == Midnight \o <<SP>> \o CmdW

\* the crontabs the server starts with in this view
ServerTables ==
    {NoTable,
     Crontab(FileText(<<JobX>>)),
     Crontab(FileText(<<ShortLine, JobX>>)),
     Crontab(FileText(<<CommentA, JobX, JobW>>))}

\* the entry each caller adds
ServerAdds ==
    [one |-> <<Midnight, CmdW, CommentC>>,
     two |-> <<Midnight, CmdTwoWords, NoComment>>]

\* the indexes a caller deletes: those of its latest list, or 0 without one
IndexesOf(c) ==
    IF snapshot[c].taken /\ snapshot[c].jobs # <<>>
    THEN 0..(Len(snapshot[c].jobs) - 1)
    ELSE {0}

\* listed and seen are history: the list the index was taken from
RequestsOf(c) ==
    {[NoRequest EXCEPT !.client = c, !.op = "list"]}
    \cup {[NoRequest EXCEPT !.client = c, !.op = "add", !.schedule = ServerAdds[c][1],
                            !.command = ServerAdds[c][2], !.comment = ServerAdds[c][3]]}
    \cup {[NoRequest EXCEPT !.client = c, !.op = "delete", !.index = i,
                            !.listed = snapshot[c].taken,
                            !.seen = snapshot[c].jobs] : i \in IndexesOf(c)}

\* the caller waits for the response before it sends again
Outstanding(c) ==
    \/ \E k \in 1..Len(pending) : pending[k].client = c
    \/ \E t \in Threads : threads[t].pc # "idle" /\ threads[t].request.client = c

InitServer ==
    /\ table \in ServerTables
    /\ temp_file = "none"
    /\ before = table
    /\ last = NoCall
    /\ ServerIdle

\* a caller sends a request and the socket accepts it
Send(c, request) ==
    /\ sent < MaxRequests
    /\ ~Outstanding(c)
    /\ pending' = Append(pending, request)
    /\ sent' = sent + 1
    /\ UNCHANGED <<table, temp_file, before, last, threads, snapshot, recent>>

\* the last two calls, the latest last; overlapped: an Add returned while
\* another caller's request was waiting for the thread
Remember(request, read, success) ==
    LET call == [request |-> request, read |-> read, success |-> success,
                 overlapped |-> /\ request.op = "add"
                                /\ \E c \in Clients \ {request.client} : Outstanding(c)]
    IN  IF Len(recent) < 2 THEN Append(recent, call) ELSE <<recent[2], call>>

\* do_GET /api/jobs: get_cron_jobs reads the crontab once and answers
ServeList(t) ==
    /\ threads[t].pc = "idle"
    /\ pending # <<>>
    /\ Head(pending).op = "list"
    /\ snapshot' = [snapshot EXCEPT ![Head(pending).client] =
                       [taken |-> TRUE, jobs |-> get_cron_jobs(table)]]
    /\ pending' = Tail(pending)
    /\ UNCHANGED <<table, temp_file, before, last, threads, recent, sent>>

\* do_POST, do_DELETE: the "crontab -l" of add_cron_job and delete_cron_job
ReadTable(t) ==
    /\ threads[t].pc = "idle"
    /\ pending # <<>>
    /\ Head(pending).op \in {"add", "delete"}
    /\ Head(pending).op = "delete" => table.exists
    /\ threads' = [threads EXCEPT ![t] = [pc |-> "read", request |-> Head(pending),
                                          read |-> table]]
    /\ pending' = Tail(pending)
    /\ UNCHANGED <<table, temp_file, before, last, snapshot, recent, sent>>

\* do_DELETE: "crontab -l" raised CalledProcessError, delete_cron_job returns False
FailRead(t) ==
    /\ threads[t].pc = "idle"
    /\ pending # <<>>
    /\ Head(pending).op = "delete"
    /\ ~table.exists
    /\ temp_file' = "none"
    /\ recent' = Remember(Head(pending), table, FALSE)
    /\ pending' = Tail(pending)
    /\ UNCHANGED <<table, before, last, threads, snapshot, sent>>

\* the lines add_cron_job or delete_cron_job writes from the text it read
LinesToWrite(request, read) ==
    IF request.op = "add"
    THEN AppendJob(CurrentJobs(read), request.schedule, request.command, request.comment)
    ELSE FilterLines(Split(Strip(read.text), NL), request.index, 1, 0, <<>>)

\* the temporary file, "crontab <file>" and the response
WriteTable(t, ok) ==
    /\ threads[t].pc = "read"
    /\ table' = Install(table, WriteLines(LinesToWrite(threads[t].request, threads[t].read)), ok)
    /\ temp_file' = IF ok THEN "unlinked" ELSE "exists"
    /\ recent' = Remember(threads[t].request, threads[t].read, ok)
    /\ threads' = [threads EXCEPT ![t] = IdleThread]
    /\ UNCHANGED <<before, last, pending, snapshot, sent>>

Request == \E c \in Clients : \E request \in RequestsOf(c) : Send(c, request)
List == \E t \in Threads : ServeList(t)
Read == \E t \in Threads : ReadTable(t)
Unreadable == \E t \in Threads : FailRead(t)
Write == \E t \in Threads, ok \in BOOLEAN : WriteTable(t, ok)

NextServer == Request \/ List \/ Read \/ Unreadable \/ Write

SpecServer == InitServer /\ [][NextServer]_vars

----------------------------------------------------------------------------
(* Vocabulary of the properties: the crontab read line by line, without   *)
(* the scan of get_cron_jobs or the loop of delete_cron_job                *)

\* the lines of a crontab file
FileLines(text) ==
    IF text = <<>> THEN <<>>
    ELSE IF text[Len(text)] = NL THEN Split(SubSeq(text, 1, Len(text) - 1), NL)
    ELSE Split(text, NL)

FirstChar(l) == {i \in 1..Len(l) : l[i] \notin Whitespace /\ \A j \in 1..(i - 1) : l[j] \in Whitespace}
TokenStarts(l) == {i \in 1..Len(l) : l[i] \notin Whitespace /\ (i = 1 \/ l[i - 1] \in Whitespace)}

IsBlank(l) == \A i \in 1..Len(l) : l[i] \in Whitespace
IsComment(l) == \E i \in FirstChar(l) : l[i] = "#"
IsEntry(l) == ~IsBlank(l) /\ ~IsComment(l) /\ Cardinality(TokenStarts(l)) >= 5

\* the text of a comment line: what follows its '#', trimmed
CommentText(l) == Strip(Tail(Strip(l)))

\* the label of an entry annotated by comment text c
LabelOf(c) == IF c = <<>> THEN DefaultLabel ELSE c

\* the k-th smallest element of a set of positions
Kth(S, k) == CHOOSE p \in S : Cardinality({q \in S : q < p}) = k - 1

EntryPositions(lines) == {p \in 1..Len(lines) : IsEntry(lines[p])}

\* lines without the positions in drop, order kept
Without(lines, drop) ==
    LET keep == (1..Len(lines)) \ drop
    IN  [k \in 1..Cardinality(keep) |-> lines[Kth(keep, k)]]

\* whitespace runs collapsed to one space, ends trimmed
Normalised(s) == Join(SplitWs(s), SP)

JobsBefore == get_cron_jobs(before)
JobsAfter == get_cron_jobs(table)

DeletedListed ==
    /\ last.op = "delete"
    /\ last.success
    /\ last.index \in 0..(Len(JobsBefore) - 1)

----------------------------------------------------------------------------
(* C1: Delete(index) with an index no listed entry has (negative, or at   *)
(* least the number of entries) returns failure and leaves the crontab    *)
(* exactly as it was.                                                      *)
C1_OutOfRangeDeleteFails ==
    (/\ last.op = "delete"
     /\ before.exists
     /\ (last.index < 0 \/ last.index >= Len(JobsBefore)))
    => (last.success = FALSE /\ table = before)

\* an entry without its comment
C2_Core(j) == [index |-> j.index, schedule |-> j.schedule,
               command |-> j.command, full_line |-> j.full_line]

(* C2: a successful Delete(i) of a listed index i removes exactly the     *)
(* entry List reported with index i: the next List is the previous one    *)
(* without entry i, later indexes decreased by one (index, schedule,      *)
(* command and raw line compared).                                         *)
C2_DeleteUsesListCounter ==
    DeletedListed =>
        /\ Len(JobsAfter) = Len(JobsBefore) - 1
        /\ \A k \in 1..Len(JobsAfter) :
              C2_Core(JobsAfter[k]) =
                 IF k <= last.index THEN C2_Core(JobsBefore[k])
                 ELSE C2_Core([JobsBefore[k + 1] EXCEPT !.index = @ - 1])

(* C3 as stated: after a successful Add, List has exactly one more entry, *)
(* the new entry is last, and its schedule, command and comment equal the *)
(* values passed to Add.                                                   *)
C3_AddRoundTripAsStated ==
    (last.op = "add" /\ last.success) =>
        /\ Len(JobsAfter) = Len(JobsBefore) + 1
        /\ JobsAfter[Len(JobsAfter)].schedule = last.schedule
        /\ JobsAfter[Len(JobsAfter)].command = last.command
        /\ JobsAfter[Len(JobsAfter)].comment = last.comment

\* the last line of the text add_cron_job read, trimmed; nothing for no text
LastLineRead(tbl) ==
    LET t == Strip(tbl.text)
        nls == {i \in 1..Len(t) : t[i] = NL}
    IN  IF ~tbl.exists THEN <<>>
        ELSE IF nls = {} THEN t
        ELSE Strip(SubSeq(t, Max(nls) + 1, Len(t)))

\* the comment List reports for the entry a successful Add appended
C3_NewComment ==
    IF last.comment # <<>> THEN LabelOf(Strip(last.comment))
    ELSE IF IsComment(LastLineRead(before)) THEN LabelOf(CommentText(LastLineRead(before)))
    ELSE DefaultLabel

(* C3 amended: after a successful Add of a five-token schedule, List has  *)
(* exactly one more entry, the new entry is last, its schedule and        *)
(* command are the passed values with whitespace runs collapsed, and its  *)
(* comment is the passed comment trimmed; for an empty comment it is the  *)
(* default label or the text of the comment line the crontab ended with.  *)
C3_AddRoundTrip ==
    (last.op = "add" /\ last.success /\ Cardinality(TokenStarts(last.schedule)) = 5) =>
        /\ Len(JobsAfter) = Len(JobsBefore) + 1
        /\ JobsAfter[Len(JobsAfter)].index = Len(JobsBefore)
        /\ JobsAfter[Len(JobsAfter)].schedule = Normalised(last.schedule)
        /\ JobsAfter[Len(JobsAfter)].command = Normalised(last.command)
        /\ JobsAfter[Len(JobsAfter)].comment = C3_NewComment

\* an Add with a comment to a crontab that already lists an entry
C3_Witness ==
    /\ last.op = "add"
    /\ last.success
    /\ last.comment = CommentC
    /\ Len(JobsBefore) >= 1
    /\ JobsAfter[Len(JobsAfter)].comment = CommentC
    /\ JobsAfter[Len(JobsAfter)].schedule = Midnight

(* C4: a successful Delete of a listed entry drops the entry's raw line,  *)
(* drops the line before it exactly when that is a comment line, and      *)
(* writes every other raw line back unchanged and in order.                *)
C4_DeleteFrame ==
    DeletedListed =>
        LET lines == FileLines(before.text)
            p == Kth(EntryPositions(lines), last.index + 1)
            drop == {p} \cup (IF p > 1 /\ IsComment(lines[p - 1]) THEN {p - 1} ELSE {})
        IN  FileLines(table.text) = Without(lines, drop)

(* C5: after a successful Delete(i) every other entry is listed with the  *)
(* comment it had before the Delete.                                       *)
C5_DeleteKeepsPairing ==
    DeletedListed =>
        /\ Len(JobsAfter) = Len(JobsBefore) - 1
        /\ \A k \in 1..Len(JobsAfter) :
              JobsAfter[k].comment =
                 (IF k <= last.index THEN JobsBefore[k] ELSE JobsBefore[k + 1]).comment

(* C6: after a successful Add on a readable crontab every listed entry    *)
(* keeps index, schedule, command and comment, and the new entry carries  *)
(* only the comment passed to Add: the default label when that is empty.  *)
C6_AddKeepsPairing ==
    (last.op = "add" /\ last.success /\ before.exists) =>
        /\ Len(JobsAfter) = Len(JobsBefore) + 1
        /\ \A k \in 1..Len(JobsBefore) : JobsAfter[k] = JobsBefore[k]
        /\ last.comment = <<>> => JobsAfter[Len(JobsAfter)].comment = DefaultLabel

(* C9: after every Add or Delete call, successful or not, the temporary   *)
(* file the call created no longer exists.                                 *)
C9_NoTempFileLeft ==
    last.op \in {"add", "delete"} => temp_file # "exists"

----------------------------------------------------------------------------
(* C7: List pairs an entry with the comment line directly above it (the   *)
(* most recent comment with only comment lines in between): its comment   *)
(* is that line's trimmed text; after a blank or any other non-comment    *)
(* line the entry gets the default label; a later comment line replaces   *)
(* an earlier one and a comment serves at most one entry.                  *)
C7_ListPairing ==
    last.op = "list" /\ before.exists =>
        LET lines == Split(before.text, NL)
            entries == EntryPositions(lines)
        IN  /\ Len(last.jobs) = Cardinality(entries)
            /\ \A k \in 1..Len(last.jobs) :
                  LET p == Kth(entries, k)
                  IN  last.jobs[k].comment =
                         IF p > 1 /\ IsComment(lines[p - 1])
                         THEN LabelOf(CommentText(lines[p - 1]))
                         ELSE DefaultLabel

\* a List of a crontab where a blank line separates a comment from an entry
C7_Witness ==
    /\ last.op = "list"
    /\ before.exists
    /\ LET lines == Split(before.text, NL)
       IN  \E p \in EntryPositions(lines) :
              /\ p > 2
              /\ IsBlank(lines[p - 1])
              /\ IsComment(lines[p - 2])
              /\ \E k \in 1..Len(last.jobs) :
                    /\ last.jobs[k].full_line = Strip(lines[p])
                    /\ last.jobs[k].comment = DefaultLabel

(* C8: whenever Add or Delete returns failure (crontab unreadable for     *)
(* Delete, or the install failed) the crontab is what it was before the   *)
(* call.                                                                   *)
C8_FailureLeavesTable ==
    (last.op \in {"add", "delete"} /\ ~last.success) => table = before

\* a failed install on a crontab with content
C8_Witness ==
    /\ last.op \in {"add", "delete"}
    /\ ~last.success
    /\ temp_file = "exists"
    /\ before.exists
    /\ Len(JobsBefore) >= 1

----------------------------------------------------------------------------
(* C10: parse of an expression whose number of whitespace-separated       *)
(* tokens is not 5 returns valid = false, and every result with           *)
(* valid = false has an empty next_runs and no breakdown.                  *)
C10_InvalidHasNoRuns ==
    last.op = "parse" =>
        /\ Cardinality(TokenStarts(last.expression)) # 5 => ~last.result.valid
        /\ ~last.result.valid =>
              /\ last.result.next_runs = <<>>
              /\ "breakdown" \notin DOMAIN last.result

\* a five-token expression whose range field raises, answered with valid = false
C10_Witness ==
    /\ last.op = "parse"
    /\ Cardinality(TokenStarts(last.expression)) = 5
    /\ ~last.result.valid
    /\ last.result.explanation = UnpackError

----------------------------------------------------------------------------
(* Vocabulary of the projection properties *)

\* the minutes a formatted timestamp stands for; the order of the
\* "%Y-%m-%d %H:%M" strings is the order of these numbers
MinuteOf(stamp) == (stamp.date * 24 + stamp.hour) * 60 + stamp.minute

\* the tokens of an expression, read off its characters
TokensOf(s) ==
    LET starts == TokenStarts(s)
        EndOf(p) == Min({q \in p..Len(s) : q = Len(s) \/ s[q + 1] \in Whitespace})
    IN  [k \in 1..Cardinality(starts) |-> SubSeq(s, Kth(starts, k), EndOf(Kth(starts, k)))]

Parsed == last.op = "parse"
Runs == last.result.next_runs

(* C11: next_runs of every parse has at most 5 entries, is strictly       *)
(* increasing in time and has no timestamp twice, also for the steps      *)
(* "*/n" with n = 0 or n negative.                                         *)
C11_RunsStrictlyIncreasing ==
    Parsed =>
        /\ Len(Runs) <= Count
        /\ \A i, j \in 1..Len(Runs) : i < j => MinuteOf(Runs[i]) < MinuteOf(Runs[j])

AllWildcards == <<<<"*">>, <<"*">>, <<"*">>, <<"*">>, <<"*">>>>

\* valid five-field expressions that agree with the parsed one on minute and hour
SameMinuteAndHour ==
    {e \in Expressions :
        /\ Len(TokensOf(e)) = 5
        /\ TokensOf(e)[1] = TokensOf(last.expression)[1]
        /\ TokensOf(e)[2] = TokensOf(last.expression)[2]
        /\ parse_cron(e, last.now).valid}

(* C12 as stated: two valid five-field expressions with the same minute   *)
(* and hour fields, parsed at the same time, have the same next_runs      *)
(* whatever their day-of-month, month and day-of-week fields are.         *)
C12_OnlyMinuteAndHourAsStated ==
    (Parsed /\ last.result.valid) =>
        \A e \in SameMinuteAndHour : parse_cron(e, last.now).next_runs = Runs

(* C12 amended: they have the same next_runs unless exactly one of the    *)
(* two is the all-wildcard expression, which alone takes the first        *)
(* branch of the projection.                                               *)
C12_OnlyMinuteAndHour ==
    (Parsed /\ last.result.valid) =>
        \A e \in SameMinuteAndHour :
            ((TokensOf(e) = AllWildcards) <=> (TokensOf(last.expression) = AllWildcards))
                => parse_cron(e, last.now).next_runs = Runs

\* "0 * 1 * *" parsed off the hour: five hourly runs, those of "0 * * * *"
C12_Witness ==
    /\ Parsed
    /\ last.expression = ExprHourlyFirst
    /\ last.now % SecondsPerHour # 0
    /\ Len(Runs) = Count
    /\ ExprHourly \in SameMinuteAndHour
    /\ Runs[1] = Stamp((last.now \div SecondsPerHour + 1) * SecondsPerHour)

Fields == TokensOf(last.expression)

\* minute and hour are both written in digits only
PlainTime == Len(Fields) = 5 /\ IsDigit(Fields[1]) /\ IsDigit(Fields[2])

\* the earliest instant at hour:minute, second 0, that is later than now
NextAt(now, hour, minute) ==
    LET today == (now \div SecondsPerDay) * SecondsPerDay
                 + hour * SecondsPerHour + minute * SecondsPerMinute
    IN  IF today > now THEN today ELSE today + SecondsPerDay

\* five runs one day apart, the first at the instant t
DailyFrom(t) ==
    /\ Len(Runs) = Count
    /\ \A i \in 1..Count : Runs[i] = Stamp(t + (i - 1) * SecondsPerDay)

(* C13 as stated: when minute and hour are both plain integers, next_runs *)
(* has 5 entries, the first at the earliest instant hour:minute strictly  *)
(* later than now, each following one exactly one day later.              *)
C13_DailyRecurrenceAsStated ==
    (Parsed /\ PlainTime /\ last.result.valid) =>
        DailyFrom(NextAt(last.now, DigitsValue(Fields[2]), DigitsValue(Fields[1])))

(* C13 amended: the same for an hour in 0..23 and a minute in 0..59, as   *)
(* long as the fifth run is not past the last datetime.                    *)
C13_DailyRecurrence ==
    (/\ Parsed /\ PlainTime /\ last.result.valid
     /\ DigitsValue(Fields[2]) <= 23
     /\ DigitsValue(Fields[1]) <= 59
     /\ InRange(NextAt(last.now, DigitsValue(Fields[2]), DigitsValue(Fields[1]))
                + (Count - 1) * SecondsPerDay)) =>
        DailyFrom(NextAt(last.now, DigitsValue(Fields[2]), DigitsValue(Fields[1])))

\* "0 0 * * *" parsed at midnight sharp: the first run is tomorrow's midnight
C13_Witness ==
    /\ Parsed
    /\ last.expression = Midnight
    /\ last.now % SecondsPerDay = 0
    /\ Len(Runs) = Count
    /\ Runs[1] = Stamp(last.now + SecondsPerDay)
    /\ Runs[Count] = Stamp(last.now + Count * SecondsPerDay)

\* minute is "*/n" with n an integer literal, hour is "*"
MinuteStep ==
    /\ Len(Fields) = 5
    /\ StartsWithText(Fields[1], <<"*", "/">>)
    /\ IsInt(From(Fields[1], 2))
    /\ Fields[2] = <<"*">>

StepOf == IntValue(From(Fields[1], 2)) * SecondsPerMinute

\* five runs, the i-th at now + i * step
EveryStep(step) ==
    /\ Len(Runs) = Count
    /\ \A i \in 1..Count : Runs[i] = Stamp(last.now + i * step)

(* C14 as stated: when minute is "*/n" and hour is "*", next_runs is      *)
(* exactly now + n, now + 2n, ..., now + 5n minutes, not aligned to the   *)
(* clock, whatever the other three fields are.                             *)
C14_EveryNMinutesAsStated ==
    (Parsed /\ MinuteStep /\ last.result.valid) => EveryStep(StepOf)

(* C14 amended: the same as long as now + n and now + 5n minutes are      *)
(* instants a datetime can hold.                                           *)
C14_EveryNMinutes ==
    (/\ Parsed /\ MinuteStep /\ last.result.valid
     /\ InRange(last.now + StepOf)
     /\ InRange(last.now + Count * StepOf)) => EveryStep(StepOf)

\* "*/15 * * * 1-5" parsed at 13:07:59: runs at 13:22, 13:37, ..., off the quarters
C14_Witness ==
    /\ Parsed
    /\ last.expression = ExprEvery15Weekdays
    /\ last.now % SecondsPerHour = 7 * SecondsPerMinute + 59
    /\ Len(Runs) = Count
    /\ Runs[1].minute = 22
    /\ Runs[Count] = Stamp(last.now + 75 * SecondsPerMinute)

EveryMinuteText == <<"E", "v", "e", "r", "y", " ", "m", "i", "n", "u", "t", "e">>

(* C15: parse of the all-wildcard expression returns the description      *)
(* "Every minute" and exactly 5 runs at now + 1, ..., now + 5 minutes:    *)
(* all after now, each one minute after the one before.                    *)
C15_EveryMinute ==
    (Parsed /\ Fields = AllWildcards) =>
        /\ last.result.valid
        /\ last.result.description = EveryMinuteText
        /\ EveryStep(SecondsPerMinute)
        /\ MinuteOf(Runs[1]) = MinuteOf(Stamp(last.now)) + 1
        /\ \A i \in 1..(Count - 1) : MinuteOf(Runs[i + 1]) = MinuteOf(Runs[i]) + 1

\* "* * * * *" parsed one second before midnight: the runs are in the next day
C15_Witness ==
    /\ Parsed
    /\ last.expression = ExprEveryMinute
    /\ last.now % SecondsPerDay = SecondsPerDay - 1
    /\ last.result.description = EveryMinuteText
    /\ Len(Runs) = Count
    /\ Runs[1] = [date |-> last.now \div SecondsPerDay + 1, hour |-> 0, minute |-> 0]
    /\ Runs[Count].minute = 4

\* the catalog value for a text, read off the table of patterns
CatalogValue(text) == {Patterns[k][2] : k \in {n \in 1..Len(Patterns) : Patterns[n][1] = text}}

(* C16: the description of a valid parse is the catalog value of the      *)
(* normalised expression (its five tokens joined by single spaces)        *)
(* whenever that is a catalog key, whatever whitespace the input has      *)
(* around or between the tokens; otherwise it is the explanation.         *)
C16_CatalogOnNormalized ==
    (Parsed /\ last.result.valid) =>
        IF CatalogValue(Normalised(last.expression)) # {}
        THEN last.result.description \in CatalogValue(Normalised(last.expression))
        ELSE last.result.description = last.result.explanation

----------------------------------------------------------------------------
\* the lines Add writes for one entry
EntryLines(schedule, command, comment) ==
    (IF comment # <<>> THEN <<<<"#">> \o comment>> ELSE <<>>)
    \o <<schedule \o <<SP>> \o command>>

(* C17: when no crontab exists, List returns no entry, and a successful   *)
(* Add leaves a crontab that consists of the new entry's lines only: its  *)
(* comment line, if any, and its entry line.                               *)
C17_NoTable ==
    /\ (last.op = "list" /\ ~before.exists) => last.jobs = <<>>
    /\ (last.op = "add" /\ last.success /\ ~before.exists) =>
          /\ table.exists
          /\ FileLines(table.text) = EntryLines(last.schedule, last.command, last.comment)

\* an Add with a comment when no crontab exists: two lines, one listed entry
C17_Witness ==
    /\ last.op = "add"
    /\ last.success
    /\ ~before.exists
    /\ last.comment = CommentC
    /\ Len(FileLines(table.text)) = 2
    /\ Len(JobsAfter) = 1
    /\ JobsAfter[1].comment = CommentC

----------------------------------------------------------------------------
ErrorText == <<"E", "r", "r", "o", "r", " ", "p", "a", "r", "s", "i", "n", "g", " ", "c", "r", "o", "n", " ", "e", "x", "p", "r", "e", "s", "s", "i", "o", "n">>

\* a range field with more than one '-': "start, end = field.split('-')" raises
RangeRaises(field) ==
    /\ ~Contains(field, "/")
    /\ ~Contains(field, ",")
    /\ Cardinality({i \in 1..Len(field) : field[i] = "-"}) >= 2

FieldRaises == \E k \in 1..5 : RangeRaises(Fields[k])

\* the projection raises at once: a step that is no integer, or an integer
\* hour or minute that is no clock time
ProjectionRaises ==
    \/ /\ StartsWithText(Fields[1], <<"*", "/">>)
       /\ Fields[2] = <<"*">>
       /\ ~IsInt(From(Fields[1], 2))
    \/ /\ PlainTime
       /\ (DigitsValue(Fields[2]) > 23 \/ DigitsValue(Fields[1]) > 59)

Surfaced ==
    /\ ~last.result.valid
    /\ last.result.description = ErrorText
    /\ Runs = <<>>

(* C18 as stated: every exception raised while a five-token expression is *)
(* parsed, in a per-field explanation or in the projection, is surfaced   *)
(* as valid = false with the description "Error parsing cron expression"  *)
(* and an empty next_runs.                                                 *)
C18_ExceptionsSurfacedAsStated ==
    (Parsed /\ Len(Fields) = 5 /\ (FieldRaises \/ ProjectionRaises)) => Surfaced

(* C18 amended: an exception of a per-field explanation is surfaced as    *)
(* valid = false with that description, the exception text as explanation *)
(* and an empty next_runs; an exception of the projection leaves the      *)
(* result valid, with an empty next_runs for a step that is no integer    *)
(* and for an hour or minute off the clock.                                *)
C18_ExceptionsSurfaced ==
    (Parsed /\ Len(Fields) = 5) =>
        /\ FieldRaises => (Surfaced /\ last.result.explanation = UnpackError)
        /\ ~FieldRaises => last.result.valid
        /\ (~FieldRaises /\ ProjectionRaises) => Runs = <<>>

\* "*/x * * * *": int("x") raises inside the projection, the result stays valid
C18_Witness ==
    /\ Parsed
    /\ last.expression = ExprStepWord
    /\ ProjectionRaises
    /\ ~FieldRaises
    /\ last.result.valid
    /\ Runs = <<>>
    /\ "breakdown" \in DOMAIN last.result

----------------------------------------------------------------------------
(* Vocabulary of the request-by-request properties *)

\* the latest Add or Delete call that returned
Latest == recent[Len(recent)]

\* the entries without their comments
Cores(jobs) == [k \in 1..Len(jobs) |-> C2_Core(jobs[k])]

\* both remembered calls are Adds that returned success
TwoAddsSucceeded ==
    /\ Len(recent) = 2
    /\ \A k \in 1..2 : recent[k].request.op = "add" /\ recent[k].success

(* C19: the server handles one request at a time: between the read and    *)
(* the write of an Add or Delete no other request reads or writes the     *)
(* crontab, and when two Adds in a row both return success both new       *)
(* entries are listed afterwards, after the entries that were there.      *)
C19_OneRequestAtATime ==
    /\ \A t \in Threads :
          threads[t].pc = "read" =>
              /\ table = threads[t].read
              /\ \A u \in Threads \ {t} : threads[u].pc = "idle"
    /\ TwoAddsSucceeded =>
          LET jobs0 == get_cron_jobs(recent[1].read)
              jobs == get_cron_jobs(table)
          IN  /\ Len(jobs) = Len(jobs0) + 2
              /\ \A k \in 1..Len(jobs0) : C2_Core(jobs[k]) = C2_Core(jobs0[k])
              /\ \A k \in 1..2 :
                    /\ jobs[Len(jobs0) + k].schedule = Normalised(recent[k].request.schedule)
                    /\ jobs[Len(jobs0) + k].command = Normalised(recent[k].request.command)

\* two callers' Adds, the second accepted while the first was being handled
C19_Witness ==
    /\ TwoAddsSucceeded
    /\ recent[1].request.client # recent[2].request.client
    /\ recent[1].overlapped
    /\ recent[2].read # recent[1].read
    /\ Len(get_cron_jobs(table)) = Len(get_cron_jobs(recent[1].read)) + 2

\* the latest Add or Delete is a Delete
Deleted == recent # <<>> /\ Latest.request.op = "delete"

\* it returned success and its index was taken from a list
DeletedFromList ==
    /\ Deleted
    /\ Latest.success
    /\ Latest.request.listed
    /\ Latest.request.index < Len(Latest.request.seen)

\* every line is blank, a comment that starts in column 0, or an entry
Tidy(tbl) ==
    \A l \in {FileLines(tbl.text)[k] : k \in 1..Len(FileLines(tbl.text))} :
        IsBlank(l) \/ StartsWith(l, "#") \/ IsEntry(l)

\* the lists of the crontab the latest Delete read and of the crontab now
ListAtDelete == get_cron_jobs(Latest.read)
ListNow == get_cron_jobs(table)

(* C20: Delete resolves the index against the crontab it reads itself,    *)
(* not against the list the caller took the index from: it fails only     *)
(* when the install fails, and on success the entry removed is the one    *)
(* at that index of the crontab as read (none when the crontab has fewer  *)
(* entries), whatever entry the caller saw there.                          *)
C20_IndexResolvedAtDelete ==
    /\ (Deleted /\ ~Latest.success /\ Latest.read.exists) => temp_file = "exists"
    /\ (DeletedFromList /\ Tidy(Latest.read)) =>
          IF Latest.request.index < Len(ListAtDelete)
          THEN /\ Len(ListNow) = Len(ListAtDelete) - 1
               /\ \A k \in 1..Len(ListNow) :
                     C2_Core(ListNow[k]) =
                        IF k <= Latest.request.index THEN C2_Core(ListAtDelete[k])
                        ELSE C2_Core([ListAtDelete[k + 1] EXCEPT !.index = @ - 1])
          ELSE Cores(ListNow) = Cores(ListAtDelete)

\* two callers listed the same crontab and both deleted the same index: the
\* second Delete succeeded and removed an entry its caller did not see there
C20_Witness ==
    /\ DeletedFromList
    /\ Len(recent) = 2
    /\ recent[1].request.op = "delete"
    /\ recent[1].success
    /\ recent[1].request.client # Latest.request.client
    /\ recent[1].request.seen = Latest.request.seen
    /\ recent[1].request.index = Latest.request.index
    /\ Latest.request.index < Len(ListAtDelete)
    /\ ListAtDelete[Latest.request.index + 1].full_line
          # Latest.request.seen[Latest.request.index + 1].full_line
    /\ Len(ListNow) = Len(ListAtDelete) - 1

----------------------------------------------------------------------------
\* the lines a List reads: stdout of crontab -l split at newlines
ListedLines == IF before.exists THEN Split(before.text, NL) ELSE <<>>

\* the entry List returns for the line at position p, without its comment:
\* the first five tokens, the other tokens, the line trimmed
EntryOf(lines, p) ==
    LET tokens == TokensOf(lines[p])
    IN  [schedule  |-> Join(SubSeq(tokens, 1, 5), SP),
         command   |-> Join(SubSeq(tokens, 6, Len(tokens)), SP),
         full_line |-> Strip(lines[p])]

(* C21: List is a function of the crontab text alone. A second List of    *)
(* the unmodified crontab returns the entries of the first (index,        *)
(* schedule, command, comment, raw line), and for every crontab the k-th  *)
(* entry, in the order of the lines, has index k - 1 and the tokens of    *)
(* its line: the indexes are 0..n-1 also where lines of fewer than five   *)
(* tokens are skipped.                                                     *)
C21_ListIsFunctionOfText ==
    last.op = "list" =>
        LET entries == EntryPositions(ListedLines)
        IN  /\ table = before
            /\ get_cron_jobs(table) = last.jobs
            /\ Len(last.jobs) = Cardinality(entries)
            /\ \A k \in 1..Len(last.jobs) :
                  LET job == last.jobs[k]
                  IN  /\ job.index = k - 1
                      /\ [schedule  |-> job.schedule,
                          command   |-> job.command,
                          full_line |-> job.full_line] =
                             EntryOf(ListedLines, Kth(entries, k))

\* a List of a crontab with a line of fewer than five tokens between two entries
C21_Witness ==
    /\ last.op = "list"
    /\ Len(last.jobs) = 2
    /\ last.jobs[2].index = 1
    /\ \E p \in 2..(Len(ListedLines) - 1) :
          /\ ~IsBlank(ListedLines[p])
          /\ ~IsComment(ListedLines[p])
          /\ ~IsEntry(ListedLines[p])
          /\ IsEntry(ListedLines[p - 1])
          /\ IsEntry(ListedLines[p + 1])

----------------------------------------------------------------------------
\* the projection raises after it has appended a run: a later datetime of
\* the loop is past the last one (OverflowError)
ProjectionRaisesLate ==
    \/ /\ PlainTime
       /\ DigitsValue(Fields[2]) <= 23
       /\ DigitsValue(Fields[1]) <= 59
       /\ LET first == NextAt(last.now, DigitsValue(Fields[2]), DigitsValue(Fields[1]))
          IN  InRange(first) /\ ~InRange(first + Count * SecondsPerDay)
    \/ /\ StartsWithText(Fields[1], <<"*", "/">>)
       /\ Fields[2] = <<"*">>
       /\ IsInt(From(Fields[1], 2))
       /\ LET step == IntValue(From(Fields[1], 2)) * SecondsPerMinute
          IN  InRange(last.now + step) /\ ~InRange(last.now + Count * step)

FullBreakdown ==
    /\ "breakdown" \in DOMAIN last.result
    /\ DOMAIN last.result.breakdown = {"minute", "hour", "day", "month", "weekday"}

(* C22: when the per-field explanations of a five-token expression        *)
(* succeed and the projection raises, the parse returns valid = true, the *)
(* breakdown of all five fields and an empty next_runs.                    *)
C22_ProjectionFailureEmpties ==
    (/\ Parsed
     /\ Len(Fields) = 5
     /\ ~FieldRaises
     /\ (ProjectionRaises \/ ProjectionRaisesLate)) =>
        /\ last.result.valid
        /\ FullBreakdown
        /\ Runs = <<>>

----------------------------------------------------------------------------
\* the two latest calls: an Add of a readable crontab that returned
\* success, then a successful Delete of the index List gives the new
\* entry, which read the crontab the Add wrote
AddedThenDeletedNew ==
    /\ Len(recent) = 2
    /\ recent[1].request.op = "add"
    /\ recent[1].success
    /\ recent[1].read.exists
    /\ recent[2].request.op = "delete"
    /\ recent[2].success
    /\ recent[2].read =
          Crontab(WriteLines(LinesToWrite(recent[1].request, recent[1].read)))
    /\ recent[2].request.index = Len(get_cron_jobs(recent[1].read))

(* C23: after a successful Add to a readable crontab with n entries and a *)
(* successful Delete(n), List returns the entries it returned before the  *)
(* Add, with the same indexes and comments.                                *)
C23_AddThenDeleteRestoresList ==
    AddedThenDeletedNew => get_cron_jobs(table) = get_cron_jobs(recent[1].read)

====
